---- MODULE Spec2Model ----
(***************************************************************************)
(* Model of the cube kinematics and animation engine of twist-ease-cube    *)
(* (src/components/RubiksCube.tsx): the 27 cubies of the THREE.Group, the  *)
(* CubeAnimation class (createRotationGroup / update / finish) and the     *)
(* move queue of the RubiksCube component.                                 *)
(*                                                                         *)
(* Numbers.  Cubie coordinates are JavaScript doubles.  They are modelled  *)
(* in fixed point: a coordinate v stands for v / Scale, so the grid values *)
(* -1, 0, 1 are -Scale, 0, Scale.  Math.cos(Math.PI / 2) is not 0 in       *)
(* double arithmetic (6.1e-17); it is modelled as the smallest positive    *)
(* fixed-point quantity, CosHalfPi / Scale, so that a rotated coordinate   *)
(* is off the grid until Math.round snaps it.                              *)
(*                                                                         *)
(* Time.  One time unit is 0.1 s, so CubeAnimation.duration (0.3) is 3 and *)
(* progress p stands for p / Duration.                                     *)
(*                                                                         *)
(* React.  State updates made inside one handler or callback are batched   *)
(* (React 18 automatic batching): each action applies them together.  The  *)
(* queue-processing effect is its own action, ProcessMoveQueue.            *)
(***************************************************************************)
EXTENDS Integers, Sequences, FiniteSets, TLC

\* ------------------------------------------------------------------ bounds
MaxMoves == 2      \* Spec: number of performMove calls in one behaviour
MaxDelta == 3      \* largest frame delta, in time units
Scale == 4         \* fixed-point resolution of a coordinate
MaxBurst == 3      \* BurstSpec: number of performMove calls
MaxRepeat == 4     \* RepeatSpec: number of performMove calls of one token
MaxStaleTicks == 1 \* frame ticks counted on a finished animation
MaxClicks == 3     \* PageSpec: number of calls of handleMoveClick
EaseGrid == 50     \* EaseSpec: progress runs over k / (2 * EaseGrid)

\* --------------------------------------------------------------- constants
CosHalfPi == 1     \* Math.cos(Math.PI / 2), in units of 1 / Scale
Duration == 3      \* this.duration = 0.3
TimerDelay == 6    \* setTimeout(..., 600)

VARIABLES
    cubeGroup,            \* RubiksCube state: TRUE once setCubeGroup(object) ran
    children,             \* group.children: cubie ids and pivot nodes, in order
    position,             \* child.position of every cubie
    quaternion,           \* child.quaternion of every cubie
    moveQueue,            \* RubiksCube state moveQueue
    currentAnimation,     \* RubiksCube state: << >> (null) or <<animation>>
    isAnimating,          \* RubiksCube state isAnimating
    rotationGroup,        \* rotationGroup.children of the current animation
    originalPositions,    \* WeakMap of the current animation
    originalQuaternions,  \* WeakMap of the current animation
    sceneAnimation,       \* RubiksCubeScene prop currentAnimation, as last rendered
    finishedAnimation,    \* the animation object the scene still holds after finish()
    colors,               \* the six face-color slots of every cubie
    calls,                \* history: every token passed to performMove
    nextId,               \* history: id given to the next move enqueued
    history,              \* history: every move passed to handleCubeInitialized
    started,              \* history: ids of the moves admitted, in order
    completed,            \* history: ids of the moves committed, in order
    snapshots,            \* history: the grid at construction and after every commit
    pageIsAnimating,      \* Index state isAnimating
    pageTimer,            \* time left on the timer of handleMoveClick, or NoTimer
    sinceFrame,           \* time since the frame loop last read its clock
    clicks,               \* history: number of calls of handleMoveClick
    pivotRotation         \* rotation of the pivot about the axis: << >> or <<record>>

vars == <<cubeGroup, children, position, quaternion, moveQueue, currentAnimation,
          isAnimating, rotationGroup, originalPositions, originalQuaternions,
          sceneAnimation, finishedAnimation,
          colors, calls, nextId, history, started, completed, snapshots,
          pageIsAnimating, pageTimer, sinceFrame, clicks, pivotRotation>>

\* ------------------------------------------------------------------- cubies
Cubies == 0..26

\* The nested x, y, z loops push cubie 9(x+1) + 3(y+1) + (z+1) at (x, y, z).
InitialPosition(c) ==
    << ((c \div 9) - 1) * Scale, (((c \div 3) % 3) - 1) * Scale, ((c % 3) - 1) * Scale >>

InitialChildren == [i \in 1..27 |-> i - 1]

\* The color slots of the cubie pushed at (x, y, z), in the order +X, -X, +Y,
\* -Y, +Z, -Z; "none" is null (an interior face).
InitialColors(c) ==
    LET x == (c \div 9) - 1
        y == ((c \div 3) % 3) - 1
        z == (c % 3) - 1
    IN  << IF x = 1 THEN "right" ELSE "none", IF x = -1 THEN "left" ELSE "none",
           IF y = 1 THEN "up" ELSE "none",    IF y = -1 THEN "down" ELSE "none",
           IF z = 1 THEN "front" ELSE "none", IF z = -1 THEN "back" ELSE "none" >>

\* An orientation is the matrix of a rotation, as its three rows.
IdentityQuaternion == << <<1, 0, 0>>, <<0, 1, 0>>, <<0, 0, 1>> >>

\* child instanceof THREE.Mesh: the cubies are meshes, a pivot node is a Group.
IsMesh(child) == child \in Cubies

\* The node of the rotation group created for the move with this id.
PivotNode(id) == 26 + id

\* ------------------------------------------------------------- move grammar
Tokens == {"U", "U'", "D", "D'", "R", "R'", "L", "L'", "F", "F'", "B", "B'"}

\* Mutant of MoveTable: the directions of D and D' exchanged.
MoveTable_DExchanged(move) ==
    CASE move = "U"  -> [axis |-> 1, index |-> 1,  direction |-> -1]
      [] move = "U'" -> [axis |-> 1, index |-> 1,  direction |-> 1]
      [] move = "D"  -> [axis |-> 1, index |-> -1, direction |-> -1]
      [] move = "D'" -> [axis |-> 1, index |-> -1, direction |-> 1]
      [] move = "R"  -> [axis |-> 0, index |-> 1,  direction |-> -1]
      [] move = "R'" -> [axis |-> 0, index |-> 1,  direction |-> 1]
      [] move = "L"  -> [axis |-> 0, index |-> -1, direction |-> 1]
      [] move = "L'" -> [axis |-> 0, index |-> -1, direction |-> -1]
      [] move = "F"  -> [axis |-> 2, index |-> 1,  direction |-> -1]
      [] move = "F'" -> [axis |-> 2, index |-> 1,  direction |-> 1]
      [] move = "B"  -> [axis |-> 2, index |-> -1, direction |-> 1]
      [] move = "B'" -> [axis |-> 2, index |-> -1, direction |-> -1]

MoveTable(move) ==
    CASE move = "U"  -> [axis |-> 1, index |-> 1,  direction |-> -1]
      [] move = "U'" -> [axis |-> 1, index |-> 1,  direction |-> 1]
      [] move = "D"  -> [axis |-> 1, index |-> -1, direction |-> 1]
      [] move = "D'" -> [axis |-> 1, index |-> -1, direction |-> -1]
      [] move = "R"  -> [axis |-> 0, index |-> 1,  direction |-> -1]
      [] move = "R'" -> [axis |-> 0, index |-> 1,  direction |-> 1]
      [] move = "L"  -> [axis |-> 0, index |-> -1, direction |-> 1]
      [] move = "L'" -> [axis |-> 0, index |-> -1, direction |-> -1]
      [] move = "F"  -> [axis |-> 2, index |-> 1,  direction |-> -1]
      [] move = "F'" -> [axis |-> 2, index |-> 1,  direction |-> 1]
      [] move = "B"  -> [axis |-> 2, index |-> -1, direction |-> 1]
      [] move = "B'" -> [axis |-> 2, index |-> -1, direction |-> -1]

\* A token that no case of the switch matches.
InvalidTokens == {"U2"}

\* Mutant of ParseMove: the default case falls into the case of U.
ParseMove_DefaultU(move) ==
    IF move \in Tokens THEN << MoveTable(move) >> ELSE << MoveTable("U") >>

\* switch (move) { ... default: return; }: the triple, or nothing.
ParseMove(move) ==
    IF move \in Tokens THEN << MoveTable(move) >> ELSE << >>

\* ------------------------------------------------------------------ numbers
\* Math.round of a fixed-point coordinate: floor(v + 1/2), an integer.
MathRound(v) == (2 * v + Scale) \div (2 * Scale)

\* Mutant of ApplyRotation: the rotation by the angle of an animation that
\* has not advanced, which is no rotation.
ApplyRotation_NoAngle(v, axis, direction) == v

\* Vector3.applyMatrix4 of makeRotationAxis(axisVector, (PI / 2) * direction):
\* cos is CosHalfPi / Scale, sin is direction; the result is in fixed point.
ApplyRotation(v, axis, direction) ==
    LET c == CosHalfPi
        s == direction * Scale
    IN  CASE axis = 0 ->
               << v[1], (c * v[2] - s * v[3]) \div Scale, (s * v[2] + c * v[3]) \div Scale >>
          [] axis = 1 ->
               << (c * v[1] + s * v[3]) \div Scale, v[2], (c * v[3] - s * v[1]) \div Scale >>
          [] axis = 2 ->
               << (c * v[1] - s * v[2]) \div Scale, (s * v[1] + c * v[2]) \div Scale, v[3] >>

\* Mutant of SnapToGrid: the rotated position is copied without rounding.
SnapToGrid_NoRound(v) == v

\* newPosition.x = Math.round(newPosition.x), and y, z alike.
SnapToGrid(v) == << MathRound(v[1]) * Scale, MathRound(v[2]) * Scale, MathRound(v[3]) * Scale >>

\* The position finish() gives a cubie whose stored original position is v.
NewPosition(v, axis, direction) == SnapToGrid(ApplyRotation(v, axis, direction))

\* ---------------------------------------------------------------- sequences
\* Mutant of RemoveAt: the child is not taken out of the array.
RemoveAt_Keep(s, i) == s

RemoveAt(s, i) == SubSeq(s, 1, i - 1) \o SubSeq(s, i + 1, Len(s))

Range(s) == {s[i] : i \in 1..Len(s)}

\* Object3D.remove(object): splice out the first occurrence, if any.
Remove(s, x) ==
    IF x \in Range(s)
    THEN RemoveAt(s, CHOOSE i \in 1..Len(s) : s[i] = x /\ \A j \in 1..(i - 1) : s[j] # x)
    ELSE s

\* ------------------------------------------------------ createRotationGroup
\* this.group.children.forEach(...): forEach visits the indices 0..len-1 of
\* the array as it is at each visit, while group.remove(child) splices the
\* array being visited.  i is the 1-based index, len the length at the start.
RECURSIVE ForEachChild(_, _, _, _, _, _, _)
ForEachChild(i, len, ch, rg, pos, axis, index) ==
    IF i > len
    THEN [children |-> ch, rotationGroup |-> rg, position |-> pos]
    ELSE IF i > Len(ch)
    THEN ForEachChild(i + 1, len, ch, rg, pos, axis, index)
    ELSE LET child == ch[i] IN
         IF IsMesh(child) /\ MathRound(pos[child][axis + 1]) = index
         THEN ForEachChild(i + 1, len, RemoveAt(ch, i), Append(rg, child),
                  [pos EXCEPT ![child][axis + 1] = @ - index * Scale],
                  axis, index)
         ELSE ForEachChild(i + 1, len, ch, rg, pos, axis, index)

\* Mutant of CreateRotationGroup: the offset is subtracted from every cubie, not
\* only from those moved to the rotation group.
CreateRotationGroup_OffsetAll(ch, pos, axis, index) ==
    LET made == ForEachChild(1, Len(ch), ch, << >>, pos, axis, index) IN
    [made EXCEPT !.position =
        [c \in Cubies |-> [pos[c] EXCEPT ![axis + 1] = @ - index * Scale]]]

CreateRotationGroup(ch, pos, axis, index) ==
    ForEachChild(1, Len(ch), ch, << >>, pos, axis, index)

\* ------------------------------------------------------------------- finish
\* while (this.rotationGroup.children.length > 0): every child of the rotation
\* group, first to last, gets its new position and goes back to the group.
\* quaternion.copy(originalQuaternion) is followed by rotation.set(0, 0, 0),
\* and three.js keeps rotation and quaternion in step: the quaternion that
\* remains is the identity.
RotationSet(originalQuaternion) == IdentityQuaternion

RECURSIVE FinishChildren(_, _, _, _, _, _, _, _)
FinishChildren(rg, ch, pos, quat, origPos, origQuat, axis, direction) ==
    IF rg = << >>
    THEN [children |-> ch, position |-> pos, quaternion |-> quat]
    ELSE LET child == Head(rg) IN
         IF child \in DOMAIN origPos /\ child \in DOMAIN origQuat
         THEN FinishChildren(Tail(rg), Append(ch, child),
                  [pos EXCEPT ![child] = NewPosition(origPos[child], axis, direction)],
                  [quat EXCEPT ![child] = RotationSet(origQuat[child])],
                  origPos, origQuat, axis, direction)
         ELSE FinishChildren(Tail(rg), Append(ch, child), pos, quat,
                  origPos, origQuat, axis, direction)

\* ---------------------------------------------------------------- scheduler
NoAnimation == << >>

\* Mutant of CanProcess: the guard without !currentAnimation.
CanProcess_NoGuard(queue, group, animation) ==
    Len(queue) > 0 /\ group

\* The effect's guard: moveQueue.length > 0 && cubeGroup && !currentAnimation.
CanProcess(queue, group, animation) ==
    Len(queue) > 0 /\ group /\ animation = NoAnimation

\* const nextMove = moveQueue[0]
NextMove(queue) == Head(queue)

\* Mutant of NewMoveQueue: the copy without the shift.
NewMoveQueue_NoShift(queue) == queue

\* const newMoveQueue = [...moveQueue]; newMoveQueue.shift()
NewMoveQueue(queue) == Tail(queue)

\* What the prop currentAnimation of the scene refers to: null, the animation
\* that is the state currentAnimation, or one that has finished since the
\* scene was last rendered.
SceneNull == "null"
SceneCurrent == "current"
SceneFinished == "finished"

\* The prop the next render passes to the scene.
RenderedAnimation(animation) ==
    IF animation = NoAnimation THEN SceneNull ELSE SceneCurrent

\* Mutant of CleanUp: finish() without this.rotationGroup = null.
CleanUp_KeepGroup(animation) == animation

\* finish(), clean up: this.rotationGroup = null.
CleanUp(animation) == [animation EXCEPT !.hasRotationGroup = FALSE]

\* Mutant of AdvanceProgress: the progress is never advanced.
AdvanceProgress_Stuck(progress, delta) == progress

\* Mutant of AdvanceProgress: the sum without Math.min.
AdvanceProgress_NoClamp(progress, delta) == progress + delta

\* Math.min(this.progress + delta / this.duration, 1)
AdvanceProgress(progress, delta) ==
    IF progress + delta < Duration THEN progress + delta ELSE Duration

\* Mutant of IsAnimatingOnComplete: the callback without setIsAnimating(false).
IsAnimatingOnComplete_Keep(queue, animating) == animating

\* The completion callback: if (newMoveQueue.length === 0) setIsAnimating(false).
IsAnimatingOnComplete(queue, animating) ==
    IF Len(queue) = 0 THEN FALSE ELSE animating

\* --------------------------------------------------------------- the easing
\* easeInOutCubic(x) for x = k / n, in units of 1 / n^3: the branch for
\* x < 0.5 is 4 * x * x * x, the other 1 - Math.pow(-2 * x + 2, 3) / 2.
EaseFirstBranch(k, n) == 4 * k * k * k

EaseSecondBranch(k, n) == n * n * n - 4 * (n - k) * (n - k) * (n - k)

\* Mutant of EaseInOutCubic: the first branch for every x.
EaseInOutCubic_OneBranch(k, n) == EaseFirstBranch(k, n)

EaseInOutCubic(k, n) ==
    IF 2 * k < n THEN EaseFirstBranch(k, n) ELSE EaseSecondBranch(k, n)

\* The pivot of a new CubeAnimation: progress 0 of n, no rotation yet.
NewPivot(direction, n) ==
    [direction |-> direction, progress |-> 0, n |-> n, eased |-> 0, angle |-> 0]

\* update(): eased = easeInOutCubic(progress) and the rotation of the pivot
\* about the axis is (Math.PI / 2) * eased * direction, here in units of a
\* quarter turn / n^3.
Rotate(pivot, progress) ==
    LET eased == EaseInOutCubic(progress, pivot.n) IN
    [pivot EXCEPT !.progress = progress, !.eased = eased,
                  !.angle = eased * pivot.direction]

\* The timer of handleMoveClick when none is pending.
NoTimer == -1

\* -------------------------------------------------------------------- state
Init ==
    /\ cubeGroup = FALSE
    /\ children = InitialChildren
    /\ position = [c \in Cubies |-> InitialPosition(c)]
    /\ quaternion = [c \in Cubies |-> IdentityQuaternion]
    /\ moveQueue = << >>
    /\ currentAnimation = NoAnimation
    /\ isAnimating = FALSE
    /\ rotationGroup = << >>
    /\ originalPositions = << >>
    /\ originalQuaternions = << >>
    /\ sceneAnimation = SceneNull
    /\ finishedAnimation = << >>
    /\ colors = [c \in Cubies |-> InitialColors(c)]
    /\ calls = << >>
    /\ nextId = 1
    /\ history = << >>
    /\ started = << >>
    /\ completed = << >>
    /\ snapshots = << [position |-> [c \in Cubies |-> InitialPosition(c)],
                       quaternion |-> [c \in Cubies |-> IdentityQuaternion]] >>
    /\ pageIsAnimating = FALSE
    /\ pageTimer = NoTimer
    /\ sinceFrame = 0
    /\ clicks = 0
    /\ pivotRotation = << >>

\* handleSceneMount: setCubeGroup(object) for the group of the scene.
HandleSceneMount ==
    /\ ~cubeGroup
    /\ cubeGroup' = TRUE
    /\ UNCHANGED <<children, position, quaternion, moveQueue, currentAnimation,
                   isAnimating, rotationGroup, originalPositions, originalQuaternions,
                   sceneAnimation, finishedAnimation,
                   colors, calls, nextId, history, started, completed, snapshots>>
    /\ UNCHANGED <<pageIsAnimating, pageTimer, sinceFrame, clicks>>
    /\ UNCHANGED pivotRotation

\* handleCubeInitialized(moveData), for the triple performMove parsed from
\* move: setMoveQueue(prevQueue => [...prevQueue, moveData]).
Enqueue(move, triple) ==
    LET moveData == [id |-> nextId] @@ triple IN
    /\ moveQueue' = Append(moveQueue, moveData)
    /\ nextId' = nextId + 1
    /\ history' = Append(history, [token |-> move, move |-> moveData])
    /\ UNCHANGED <<cubeGroup, children, position, quaternion, currentAnimation,
                   isAnimating, rotationGroup, originalPositions, originalQuaternions,
                   sceneAnimation, finishedAnimation, colors, started, completed,
                   snapshots>>

\* RubiksCubeScene.performMove(move): parse the token and hand the triple to
\* onCubeInitialized, or return at the default case.
Perform(move) ==
    LET parsed == ParseMove(move) IN
    /\ calls' = Append(calls, move)
    /\ UNCHANGED <<sinceFrame, pivotRotation>>
    /\ IF parsed = << >>
       THEN UNCHANGED <<cubeGroup, children, position, quaternion, moveQueue,
                        currentAnimation, isAnimating, rotationGroup,
                        originalPositions, originalQuaternions, sceneAnimation,
                        finishedAnimation, colors, nextId, history, started,
                        completed, snapshots>>
       ELSE Enqueue(move, parsed[1])

PerformMove ==
    \E move \in Tokens \cup InvalidTokens :
        /\ Len(calls) < MaxMoves
        /\ Perform(move)
        /\ UNCHANGED <<pageIsAnimating, pageTimer, clicks>>

\* useEffect (process move queue): new CubeAnimation(...) runs
\* createRotationGroup in its constructor; the head stays in moveQueue.
ProcessMoveQueue ==
    /\ CanProcess(moveQueue, cubeGroup, currentAnimation)
    /\ LET nextMove == NextMove(moveQueue)
           made == CreateRotationGroup(children, position, nextMove.axis, nextMove.index)
           detached == Range(made.rotationGroup)
       IN  /\ isAnimating' = TRUE
           /\ currentAnimation' = << [id |-> nextMove.id, axis |-> nextMove.axis,
                                      index |-> nextMove.index,
                                      direction |-> nextMove.direction,
                                      progress |-> 0,
                                      hasRotationGroup |-> TRUE,
                                      newMoveQueue |-> NewMoveQueue(moveQueue),
                                      ticks |-> 0, staleTicks |-> 0] >>
           /\ rotationGroup' = made.rotationGroup
           /\ children' = Append(made.children, PivotNode(nextMove.id))
           /\ position' = made.position
           /\ originalPositions' = [c \in detached |-> position[c]]
           /\ originalQuaternions' = [c \in detached |-> quaternion[c]]
           /\ started' = Append(started, nextMove.id)
    /\ UNCHANGED <<cubeGroup, quaternion, moveQueue, sceneAnimation, finishedAnimation,
                   colors, calls, nextId, history, completed, snapshots>>
    /\ UNCHANGED <<pageIsAnimating, pageTimer, sinceFrame, clicks>>
    /\ pivotRotation' = << NewPivot(NextMove(moveQueue).direction, Duration) >>

\* The scene is rendered again with the state currentAnimation as its prop;
\* the animation object it held before is dropped.
RenderScene ==
    /\ sceneAnimation # RenderedAnimation(currentAnimation)
    /\ sceneAnimation' = RenderedAnimation(currentAnimation)
    /\ finishedAnimation' = << >>
    /\ UNCHANGED <<cubeGroup, children, position, quaternion, moveQueue, currentAnimation,
                   isAnimating, rotationGroup, originalPositions, originalQuaternions,
                   colors, calls, nextId, history, started, completed, snapshots>>
    /\ UNCHANGED <<pageIsAnimating, pageTimer, sinceFrame, clicks>>
    /\ UNCHANGED pivotRotation

\* useFrame on the animation in flight: update(delta), and finish() with its
\* onComplete callback when update returns true.  delta is the time since
\* the clock was last read, and reading it starts the count again.  The fields ticks and
\* staleTicks of an animation are history: the update calls that advanced
\* it while in flight, and the frame ticks it got after it finished.
Frame(delta) ==
    /\ sceneAnimation = SceneCurrent
    /\ currentAnimation # NoAnimation
    /\ LET animation == currentAnimation[1]
           progress == AdvanceProgress(animation.progress, delta)
           updated == [animation EXCEPT !.progress = progress,
                          !.ticks = IF progress > animation.progress THEN @ + 1 ELSE @]
       IN  IF progress >= Duration
           THEN LET done == FinishChildren(rotationGroup, children, position, quaternion,
                                originalPositions, originalQuaternions,
                                animation.axis, animation.direction)
                IN  /\ children' = Remove(done.children, PivotNode(animation.id))
                    /\ position' = done.position
                    /\ quaternion' = done.quaternion
                    /\ rotationGroup' = << >>
                    /\ originalPositions' = << >>
                    /\ originalQuaternions' = << >>
                    /\ currentAnimation' = NoAnimation
                    /\ moveQueue' = animation.newMoveQueue
                    /\ isAnimating' = IsAnimatingOnComplete(animation.newMoveQueue,
                                                            isAnimating)
                    /\ sceneAnimation' = SceneFinished
                    /\ finishedAnimation' = << CleanUp([updated EXCEPT !.ticks = 0]) >>
                    /\ completed' = Append(completed, animation.id)
                    /\ snapshots' = Append(snapshots,
                           [position |-> done.position, quaternion |-> done.quaternion])
                    /\ pivotRotation' = << >>
           ELSE /\ currentAnimation' = << updated >>
                /\ pivotRotation' = << Rotate(pivotRotation[1], progress) >>
                /\ UNCHANGED <<children, position, quaternion, rotationGroup,
                               originalPositions, originalQuaternions, moveQueue,
                               isAnimating, sceneAnimation, finishedAnimation,
                               completed, snapshots>>
    /\ UNCHANGED <<cubeGroup, colors, calls, nextId, history, started>>
    /\ sinceFrame' = 0
    /\ UNCHANGED <<pageIsAnimating, pageTimer, clicks>>

\* useFrame on an animation that has finished, the scene not yet rendered
\* again.  With rotationGroup null, update() returns true and finish()
\* returns at once; onAnimationComplete is not passed to the scene.  Had the
\* object kept its rotation group, update() would clamp progress at 1 and
\* finish() would run over the empty group and call onComplete again.
FrameFinished(delta) ==
    /\ sceneAnimation = SceneFinished
    /\ LET animation == finishedAnimation[1] IN
       /\ animation.staleTicks < MaxStaleTicks
       /\ finishedAnimation' = << [animation EXCEPT !.staleTicks = @ + 1] >>
       /\ IF ~animation.hasRotationGroup
          THEN UNCHANGED <<children, currentAnimation, moveQueue, isAnimating, completed>>
          ELSE /\ children' = Remove(children, PivotNode(animation.id))
               /\ currentAnimation' = NoAnimation
               /\ moveQueue' = animation.newMoveQueue
               /\ isAnimating' = IsAnimatingOnComplete(animation.newMoveQueue,
                                                       isAnimating)
               /\ completed' = Append(completed, animation.id)
    /\ UNCHANGED <<cubeGroup, position, quaternion, rotationGroup, originalPositions,
                   originalQuaternions, sceneAnimation, colors, calls, nextId, history,
                   started, snapshots>>
    /\ sinceFrame' = 0
    /\ UNCHANGED <<pageIsAnimating, pageTimer, clicks, pivotRotation>>

UseFrame == \E delta \in 0..MaxDelta : Frame(delta) \/ FrameFinished(delta)

Next == HandleSceneMount \/ PerformMove \/ ProcessMoveQueue \/ RenderScene \/ UseFrame

Spec == Init /\ [][Next]_vars

\* The render loop calls useFrame on every frame with the time since the last
\* one, and React renders the scene again after a state update: frame ticks
\* with a positive delta and the render of the scene are not postponed for
\* ever.
FramePositive == \E delta \in 1..MaxDelta : Frame(delta)

\* The caller's tokens under FairSpec: two faces on different axes and a
\* token outside the alphabet.
FairTokens == {"U", "R'", "U2"}

PerformMoveFair ==
    \E move \in FairTokens :
        /\ Len(calls) < MaxMoves
        /\ Perform(move)
        /\ UNCHANGED <<pageIsAnimating, pageTimer, clicks>>

NextFair ==
    HandleSceneMount \/ PerformMoveFair \/ ProcessMoveQueue \/ RenderScene \/ UseFrame

FairSpec ==
    Init /\ [][NextFair]_vars /\ WF_vars(RenderScene) /\ WF_vars(FramePositive)

\* The same program with a burst of up to MaxBurst moves, all of them asked
\* for before any move has completed.
PerformMoveBurst ==
    \E move \in Tokens :
        /\ Len(calls) < MaxBurst
        /\ completed = << >>
        /\ Perform(move)
        /\ UNCHANGED <<pageIsAnimating, pageTimer, clicks>>

NextBurst ==
    HandleSceneMount \/ PerformMoveBurst \/ ProcessMoveQueue \/ RenderScene \/ UseFrame

BurstSpec == Init /\ [][NextBurst]_vars

\* The same program when the caller asks for one token up to MaxRepeat times.
PerformMoveRepeat ==
    \E move \in Tokens :
        /\ Len(calls) < MaxRepeat
        /\ calls # << >> => move = calls[1]
        /\ Perform(move)
        /\ UNCHANGED <<pageIsAnimating, pageTimer, clicks>>

NextRepeat ==
    HandleSceneMount \/ PerformMoveRepeat \/ ProcessMoveQueue \/ RenderScene \/ UseFrame

RepeatSpec == Init /\ [][NextRepeat]_vars

\* ---------------------------------------------------------------- the page
\* The state of RubiksCube, as opposed to that of the page around it.
cubeVars == <<cubeGroup, children, position, quaternion, moveQueue, currentAnimation,
              isAnimating, rotationGroup, originalPositions, originalQuaternions,
              sceneAnimation, finishedAnimation,
              colors, calls, nextId, history, started, completed, snapshots,
              pivotRotation>>

\* The buttons of the page the model clicks.
PageTokens == {"U", "R'"}

\* Index.handleMoveClick(move): if (cubeRef.current && !isAnimating), set the
\* flag, forward the move and start the timer; else nothing.
HandleMoveClick(move) ==
    /\ clicks < MaxClicks
    /\ clicks' = clicks + 1
    /\ IF ~pageIsAnimating
       THEN /\ pageIsAnimating' = TRUE
            /\ Perform(move)
            /\ pageTimer' = TimerDelay
       ELSE UNCHANGED <<cubeVars, pageIsAnimating, pageTimer, sinceFrame>>

\* The callback of setTimeout: setIsAnimating(false).
TimerFires ==
    /\ pageTimer = 0
    /\ pageIsAnimating' = FALSE
    /\ pageTimer' = NoTimer
    /\ UNCHANGED <<cubeVars, sinceFrame, clicks>>

\* One unit of time passes: for the timer and for the clock of the frame
\* loop.  A timer that is due may fire late; the effect and the render that
\* React has pending run before any time passes, and so does the mount.
Elapse ==
    /\ cubeGroup
    /\ ~CanProcess(moveQueue, cubeGroup, currentAnimation)
    /\ sceneAnimation = RenderedAnimation(currentAnimation)
    /\ pageTimer > 0 \/ sinceFrame < MaxDelta
    /\ pageTimer' = IF pageTimer > 0 THEN pageTimer - 1 ELSE pageTimer
    /\ sinceFrame' = IF sinceFrame < MaxDelta THEN sinceFrame + 1 ELSE sinceFrame
    /\ UNCHANGED <<cubeVars, pageIsAnimating, clicks>>

\* useFrame with no animation as its prop: only the clock is read.
IdleFrame ==
    /\ sceneAnimation = SceneNull
    /\ sinceFrame > 0
    /\ sinceFrame' = 0
    /\ UNCHANGED <<cubeVars, pageIsAnimating, pageTimer, clicks>>

\* A frame of the render loop, whenever the browser delivers one: delta is
\* the time since the last one.
PageFrame == Frame(sinceFrame) \/ FrameFinished(sinceFrame) \/ IdleFrame

NextPage ==
    \/ HandleSceneMount
    \/ \E move \in PageTokens : HandleMoveClick(move)
    \/ TimerFires
    \/ Elapse
    \/ ProcessMoveQueue
    \/ RenderScene
    \/ PageFrame

PageSpec == Init /\ [][NextPage]_vars

\* -------------------------------------------------------- update() by itself
\* new CubeAnimation(...): a pivot with no rotation, its progress on the grid
\* of EaseSpec.
CreateAnimation ==
    \E direction \in {-1, 1} :
        /\ pivotRotation = << >>
        /\ pivotRotation' = << NewPivot(direction, 2 * EaseGrid) >>
        /\ UNCHANGED <<cubeGroup, children, position, quaternion, moveQueue,
                       currentAnimation, isAnimating, rotationGroup, originalPositions,
                       originalQuaternions, sceneAnimation, finishedAnimation, colors,
                       calls, nextId, history, started, completed, snapshots,
                       pageIsAnimating, pageTimer, sinceFrame, clicks>>

\* update(delta), the progress and the rotation of the pivot only:
\* progress = Math.min(progress + delta / duration, 1), then the eased angle.
Update(delta) ==
    /\ pivotRotation # << >>
    /\ LET pivot == pivotRotation[1]
           progress == IF pivot.progress + delta < pivot.n
                       THEN pivot.progress + delta ELSE pivot.n
       IN  pivotRotation' = << Rotate(pivot, progress) >>
    /\ UNCHANGED <<cubeGroup, children, position, quaternion, moveQueue,
                   currentAnimation, isAnimating, rotationGroup, originalPositions,
                   originalQuaternions, sceneAnimation, finishedAnimation, colors,
                   calls, nextId, history, started, completed, snapshots,
                   pageIsAnimating, pageTimer, sinceFrame, clicks>>

NextEase == CreateAnimation \/ \E delta \in 0..(2 * EaseGrid) : Update(delta)

EaseSpec == Init /\ [][NextEase]_vars

\* ------------------------------------------------------- vocabulary of claims
AtRest == currentAnimation = NoAnimation

Quiescent == AtRest /\ moveQueue = << >>

QueuedIds == {moveQueue[k].id : k \in 1..Len(moveQueue)}

StrictlyIncreasing(s) == \A i, j \in 1..Len(s) : i < j => s[i] < s[j]

PivotCount == Cardinality({i \in 1..Len(children) : ~IsMesh(children[i])})

\* The grid at the last rest state, and the one before the last commit.
LastRest == snapshots[Len(snapshots)]

MoveOf(id) == history[id].move

\* The exact quarter turn of a grid point about an axis through the origin:
\* 90 degrees times direction, right-handed.
QuarterTurn(v, axis, direction) ==
    CASE axis = 0 -> << v[1], -direction * v[3], direction * v[2] >>
      [] axis = 1 -> << direction * v[3], v[2], -direction * v[1] >>
      [] axis = 2 -> << -direction * v[2], direction * v[1], v[3] >>

InLayer(v, axis, index) == v[axis + 1] = index * Scale

\* A move applied directly to a grid of positions, with no animation.
ApplyDirect(pos, m) ==
    [c \in Cubies |-> IF InLayer(pos[c], m.axis, m.index)
                      THEN QuarterTurn(pos[c], m.axis, m.direction)
                      ELSE pos[c]]

OnGrid(v) == \A k \in 1..3 : v[k] \in {-Scale, 0, Scale}

----
\* C1: no enqueued move is lost: every move passed to handleCubeInitialized
\* is, in every state, either committed or still in the pending queue (the
\* head stays in the queue while it animates) - also a move enqueued while
\* another move's animation is in flight.
C1_NoMoveLost ==
    \A id \in 1..(nextId - 1) : id \in Range(completed) \/ id \in QueuedIds

\* C2: moves are started and completed strictly in enqueue order and each at
\* most once: the ids started and the ids completed are strictly increasing,
\* and what has completed is what was started, less the move in flight.
C2_EnqueueOrder ==
    /\ StrictlyIncreasing(started)
    /\ StrictlyIncreasing(completed)
    /\ Len(completed) <= Len(started)
    /\ completed = SubSeq(started, 1, Len(completed))

C2_Witness ==
    /\ completed = <<1, 2>>
    /\ AtRest

\* C3: at most one animation session exists: the group holds at most one
\* pivot, it holds one exactly when an animation is current, no cubie is
\* detached when none is, and no move is started before the one before it
\* has committed.
C3_OneSession ==
    /\ PivotCount <= 1
    /\ PivotCount = Len(currentAnimation)
    /\ Len(started) = Len(completed) + Len(currentAnimation)
    /\ AtRest => rotationGroup = << >> /\ Len(children) = 27

C3_Witness ==
    /\ ~AtRest
    /\ currentAnimation[1].progress > 0
    /\ Len(moveQueue) >= 2
    /\ Len(completed) = 0

\* C4: the layer extraction detaches exactly the 9 cubies whose rounded
\* position along the axis equals the slice, from every rest state.
C4_WholeLayerDetached ==
    ~AtRest =>
        LET a == currentAnimation[1] IN
        /\ Range(rotationGroup) =
               {c \in Cubies : MathRound(LastRest.position[c][a.axis + 1]) = a.index}
        /\ Len(rotationGroup) = 9

\* C5: at rest no two cubies share a position.
C5_DistinctAtRest ==
    AtRest => \A c, d \in Cubies : c # d => position[c] # position[d]

\* C6: at rest every position component of every cubie is exactly -1, 0 or
\* 1, and the offset subtracted along the axis at detach is gone: along the
\* axis of the move just committed every cubie is where it was before it.
C6_OnGridAtRest ==
    AtRest =>
        /\ \A c \in Cubies : OnGrid(position[c])
        /\ completed # << >> =>
               LET axis == MoveOf(completed[Len(completed)]).axis
                   before == snapshots[Len(snapshots) - 1].position
               IN  \A c \in Cubies : position[c][axis + 1] = before[c][axis + 1]

C6_Witness ==
    /\ AtRest
    /\ Len(completed) = 2
    /\ \E c \in Cubies : position[c] # snapshots[Len(snapshots) - 1].position[c]

\* C7: after a move commits, every cubie whose pre-move position was in the
\* layer is at the exact quarter turn of that position.
C7_LayerRotated ==
    (AtRest /\ completed # << >>) =>
        LET m == MoveOf(completed[Len(completed)])
            before == snapshots[Len(snapshots) - 1].position
        IN  \A c \in Cubies :
                InLayer(before[c], m.axis, m.index) =>
                    position[c] = QuarterTurn(before[c], m.axis, m.direction)

\* C8: a move and its primed counterpart, committed one after the other,
\* restore every cubie's position and orientation.
C8_InverseRestores ==
    (AtRest /\ Len(completed) >= 2) =>
        LET n == Len(completed)
            m1 == MoveOf(completed[n - 1])
            m2 == MoveOf(completed[n])
        IN  (m1.axis = m2.axis /\ m1.index = m2.index /\ m1.direction = -m2.direction)
                => snapshots[n + 1] = snapshots[n - 1]

\* C9: the same move committed four times in a row restores every cubie's
\* position and orientation.
C9_OrderFour ==
    (AtRest /\ Len(completed) >= 4) =>
        LET n == Len(completed) IN
        (\A k \in (n - 3)..n : MoveOf(completed[k]) = [MoveOf(completed[n]) EXCEPT !.id = completed[k]])
            => snapshots[n + 1] = snapshots[n - 3]

\* C10: three moves enqueued before any of them completes (every performMove
\* of BurstSpec is) all complete, in order, and leave the grid that the three
\* exact quarter turns applied directly would leave.
C10_AsSequential ==
    (Quiescent /\ Len(history) = 3) =>
        /\ completed = <<1, 2, 3>>
        /\ position = ApplyDirect(ApplyDirect(ApplyDirect(snapshots[1].position,
                           history[1].move), history[2].move), history[3].move)


\* The move table as the claim gives it, face by face.
PrimedTokens == {"U'", "D'", "R'", "L'", "F'", "B'"}

Counterparts == { <<"U", "U'">>, <<"D", "D'">>, <<"R", "R'">>,
                  <<"L", "L'">>, <<"F", "F'">>, <<"B", "B'">> }

ClaimedAxis(token) ==
    IF token \in {"R", "R'", "L", "L'"} THEN 0
    ELSE IF token \in {"U", "U'", "D", "D'"} THEN 1 ELSE 2

ClaimedSlice(token) ==
    IF token \in {"U", "U'", "R", "R'", "F", "F'"} THEN 1 ELSE -1

ClaimedDirection(token) ==
    IF token \in PrimedTokens THEN ClaimedSlice(token) ELSE -ClaimedSlice(token)

\* C11: for each of the 12 tokens performMove enqueues exactly the triple of
\* the move table; the slice is never 0, and a token and its primed
\* counterpart differ only in the sign of direction.
C11_MoveTable ==
    /\ \A i \in 1..Len(history) :
           LET t == history[i].token
               m == history[i].move
           IN  /\ t \in Tokens
               /\ m.axis = ClaimedAxis(t)
               /\ m.index = ClaimedSlice(t)
               /\ m.direction = ClaimedDirection(t)
               /\ m.index # 0
    /\ \A i, j \in 1..Len(history) :
           <<history[i].token, history[j].token>> \in Counterparts =>
               /\ history[i].move.axis = history[j].move.axis
               /\ history[i].move.index = history[j].move.index
               /\ history[i].move.direction = -history[j].move.direction
    /\ \A k \in 1..Len(moveQueue) : moveQueue[k] = history[moveQueue[k].id].move
    /\ Len(history) = Cardinality({i \in 1..Len(calls) : calls[i] \in Tokens})

C11_Witness ==
    /\ Len(history) = 2
    /\ history[1].token = "D"
    /\ history[2].token = "D'"
    /\ Len(moveQueue) = 2

\* C12: performMove with a token outside the twelve-token alphabet enqueues
\* nothing and leaves the queue, the current animation, isAnimating and the
\* grid unchanged, whatever the scheduler is doing.
C12_InvalidIgnored ==
    [][ (Len(calls') = Len(calls) + 1 /\ calls'[Len(calls')] \notin Tokens) =>
            UNCHANGED <<moveQueue, currentAnimation, isAnimating, children, position,
                        quaternion, rotationGroup, colors, nextId, history>> ]_vars

C12_Witness ==
    /\ calls # << >>
    /\ calls[Len(calls)] \notin Tokens
    /\ ~AtRest
    /\ currentAnimation[1].progress > 0

\* C13: whenever the pending queue is non-empty or an animation is in
\* flight, isAnimating() returns true.
C13_AnimatingFlag ==
    (moveQueue # << >> \/ ~AtRest) => isAnimating

\* C14: every cubie is in exactly one container, the group or the pivot,
\* once; and with no animation in flight there is no pivot and all 27
\* cubies are children of the group.
C14_Ownership ==
    /\ \A c \in Cubies :
           Cardinality({i \in 1..Len(children) : children[i] = c})
             + Cardinality({i \in 1..Len(rotationGroup) : rotationGroup[i] = c}) = 1
    /\ AtRest =>
           /\ PivotCount = 0
           /\ rotationGroup = << >>
           /\ Range(children) = Cubies

C14_Witness ==
    /\ ~AtRest
    /\ Len(completed) = 1
    /\ Len(rotationGroup) > 0
    /\ Len(children) + Len(rotationGroup) = 28


\* C15: no cancellation: a move that has been admitted is committed in the
\* end (frame ticks with positive delta being fair), and while it is in
\* flight no step replaces or restarts it: a step leaves it the same
\* animation with the same detached cubies and no less progress, or commits
\* it.
C15_NoCancellation ==
    /\ \A id \in 1..MaxMoves : (id \in Range(started)) ~> (id \in Range(completed))
    /\ [][ ~AtRest =>
             LET a == currentAnimation[1] IN
             \/ /\ AtRest'
                /\ completed' = Append(completed, a.id)
             \/ /\ ~AtRest'
                /\ currentAnimation'[1].id = a.id
                /\ currentAnimation'[1].axis = a.axis
                /\ currentAnimation'[1].index = a.index
                /\ currentAnimation'[1].direction = a.direction
                /\ currentAnimation'[1].progress >= a.progress
                /\ rotationGroup' = rotationGroup
                /\ originalPositions' = originalPositions
                /\ started' = started ]_vars

C15_Witness ==
    /\ completed = <<1>>
    /\ nextId = 3
    /\ Quiescent

\* The cubies a layer request selects: those of the grid at the last rest
\* state whose rounded coordinate along the axis is the slice.
Selection(axis, index) ==
    {c \in Cubies : MathRound(LastRest.position[c][axis + 1]) = index}

\* C16: a layer request with slice 0, or one that selects no cubie or more
\* than 9 cubies, is rejected: no animation session runs for it, so the
\* animation in flight always has a slice other than 0 and a selection of 1
\* to 9 cubies.
C16_FaultRejected ==
    ~AtRest =>
        LET a == currentAnimation[1] IN
        /\ a.index # 0
        /\ Cardinality(Selection(a.axis, a.index)) \in 1..9

\* The matrix of the exact quarter turn about an axis, as its three rows: its
\* product with a column v is QuarterTurn(v, axis, direction).
QuarterTurnMatrix(axis, direction) ==
    CASE axis = 0 -> << <<1, 0, 0>>, <<0, 0, -direction>>, <<0, direction, 0>> >>
      [] axis = 1 -> << <<0, 0, direction>>, <<0, 1, 0>>, <<-direction, 0, 0>> >>
      [] axis = 2 -> << <<0, -direction, 0>>, <<direction, 0, 0>>, <<0, 0, 1>> >>

\* The product a b of two matrices: the rotation b followed by the rotation a.
MultiplyMatrices(a, b) ==
    [i \in 1..3 |-> [j \in 1..3 |->
        a[i][1] * b[1][j] + a[i][2] * b[2][j] + a[i][3] * b[3][j]]]

\* C17: on commit the orientation of each detached cubie is the orientation
\* stored for it at detach composed with the quarter turn of the move about
\* the move's axis.
C17_OrientationComposed ==
    [][ (~AtRest /\ AtRest') =>
            LET a == currentAnimation[1] IN
            \A c \in Range(rotationGroup) :
                quaternion'[c] =
                    MultiplyMatrices(QuarterTurnMatrix(a.axis, a.direction),
                                     originalQuaternions[c]) ]_vars

\* A frame tick delivered to an animation that has finished.
StaleTick ==
    /\ finishedAnimation # << >>
    /\ finishedAnimation' # << >>
    /\ finishedAnimation'[1].staleTicks > finishedAnimation[1].staleTicks

\* C18: a frame tick delivered to an animation after it has committed changes
\* no cubie, no progress value and no queue state and does not run the
\* completion callback again; no move completes twice.
C18_StaleTickNoOp ==
    /\ [][ StaleTick =>
              /\ UNCHANGED <<children, position, quaternion, colors, rotationGroup,
                             originalPositions, originalQuaternions>>
              /\ UNCHANGED <<moveQueue, currentAnimation, isAnimating, cubeGroup>>
              /\ finishedAnimation'[1].progress = finishedAnimation[1].progress
              /\ finishedAnimation'[1].hasRotationGroup = FALSE
              /\ completed' = completed ]_vars
    /\ [](\A i, j \in 1..Len(completed) : i # j => completed[i] # completed[j])

C18_Witness ==
    /\ finishedAnimation # << >>
    /\ finishedAnimation[1].staleTicks >= 1
    /\ completed = <<1>>
    /\ moveQueue # << >>

\* The pose a commit leaves, as a function of the grid at the last rest
\* state, the move and the cubies detached at admission - and of nothing
\* else: not of the progress, nor of the number or the sizes of the ticks.
CommittedPose(rest, detached, axis, direction) ==
    [position |-> [c \in Cubies |->
                      IF c \in detached
                      THEN QuarterTurn(rest.position[c], axis, direction)
                      ELSE rest.position[c]],
     quaternion |-> rest.quaternion]

\* C19: the committed pose does not depend on the timing of the animation:
\* whatever ticks drove the progress to 1 (one tick, several, an overshoot),
\* the positions and orientations after the commit are the same function of
\* the pre-move grid, the move and the detached layer.
C19_PoseIndependentOfTiming ==
    [][ (~AtRest /\ AtRest') =>
            LET a == currentAnimation[1]
                pose == CommittedPose(LastRest, Range(rotationGroup), a.axis, a.direction)
            IN  /\ position' = pose.position
                /\ quaternion' = pose.quaternion ]_vars

\* A second animation that two ticks have advanced, one tick short of its
\* commit, after a first one has committed.
C19_Witness ==
    /\ ~AtRest
    /\ completed = <<1>>
    /\ currentAnimation[1].ticks = 2
    /\ currentAnimation[1].progress = Duration - 1
    /\ rotationGroup # << >>

\* A cubie that is in the rotation group neither before nor after a step.
NotDetached(c) == c \notin Range(rotationGroup) /\ c \notin Range(rotationGroup')

\* C20: through the admission, every tick and the commit of a move a cubie
\* that is not detached keeps its position, its orientation and its place
\* among the children of the group; no step changes the face colors of a
\* cubie; and an enqueue changes nothing but the pending queue.
C20_FrameCondition ==
    [][ /\ \A c \in Cubies :
               NotDetached(c) =>
                   /\ position'[c] = position[c]
                   /\ quaternion'[c] = quaternion[c]
                   /\ c \in Range(children) /\ c \in Range(children')
        /\ colors' = colors
        /\ nextId' # nextId =>
               /\ moveQueue' = Append(moveQueue, history'[nextId].move)
               /\ UNCHANGED <<cubeGroup, children, position, quaternion, currentAnimation,
                              isAnimating, rotationGroup, originalPositions,
                              originalQuaternions, sceneAnimation, finishedAnimation,
                              started, completed>> ]_vars

\* Two moves enqueued and one commit, which moved some cubies and left the
\* others where they were.
C20_Witness ==
    /\ AtRest
    /\ Len(completed) = 1
    /\ nextId = 3
    /\ \E c \in Cubies : position[c] # InitialPosition(c)
    /\ \E c \in Cubies : position[c] = InitialPosition(c) /\ c \in Range(children)

\* C21: the progress of an animation starts at 0, no tick lowers it, it never
\* exceeds 1 (Duration in the time unit of the model), and the commit runs
\* only on a tick that brings it to 1: an animation in flight is below 1 and
\* one that has committed is at exactly 1.
C21_ProgressBounds ==
    /\ [](~AtRest => currentAnimation[1].progress \in 0..(Duration - 1))
    /\ [](finishedAnimation # << >> => finishedAnimation[1].progress = Duration)
    /\ [][ /\ (AtRest /\ ~AtRest') => currentAnimation'[1].progress = 0
           /\ (~AtRest /\ ~AtRest') =>
                  currentAnimation'[1].progress >= currentAnimation[1].progress
           /\ (~AtRest /\ AtRest') =>
                  /\ finishedAnimation' # << >>
                  /\ finishedAnimation'[1].id = currentAnimation[1].id
                  /\ finishedAnimation'[1].progress >= Duration
                  /\ finishedAnimation'[1].progress >= currentAnimation[1].progress
           /\ (position' # position /\ ~AtRest) => AtRest' ]_vars

C21_Witness ==
    /\ finishedAnimation # << >>
    /\ finishedAnimation[1].id = 2
    /\ finishedAnimation[1].progress = Duration

\* C22: isAnimating() is false in every quiescent state, also after several
\* moves have drained; it becomes true only when a move is admitted and false
\* only when a move commits; and while a single move has been enqueued it is
\* true exactly from the admission of that move to its commit, so it rises
\* once and falls once.
C22_AnimatingTransitions ==
    /\ [](Quiescent => ~isAnimating)
    /\ [](nextId <= 2 => (isAnimating <=> (started = <<1>> /\ completed = << >>)))
    /\ [][ /\ (~isAnimating /\ isAnimating') =>
                  /\ AtRest /\ ~AtRest'
                  /\ started' = Append(started, currentAnimation'[1].id)
           /\ (isAnimating /\ ~isAnimating') =>
                  /\ ~AtRest /\ AtRest'
                  /\ completed' = Append(completed, currentAnimation[1].id) ]_vars

\* Two moves have drained and the flag is down again.
C22_Witness ==
    /\ Quiescent
    /\ ~isAnimating
    /\ started = <<1, 2>>
    /\ completed = <<1, 2>>

\* C23: the gate of the page: a move is forwarded to the cube only by a click
\* made while the page flag is false; a click made while it is true forwards
\* nothing; and the flag is cleared, by its timer, only after the forwarded
\* move has committed, so that a move is enqueued only when the queue is
\* empty and no animation is in flight.
C23_PageGate ==
    [][ /\ calls' # calls => (clicks' = clicks + 1 /\ ~pageIsAnimating)
        /\ (clicks' # clicks /\ pageIsAnimating) => UNCHANGED <<calls, moveQueue, nextId>>
        /\ (pageIsAnimating /\ ~pageIsAnimating') => Quiescent
        /\ nextId' # nextId => Quiescent ]_vars

\* C24: easeInOutCubic is 0 at 0 and 1 at 1, its two branches both give one
\* half at 0.5, and it does not decrease on the grid; so the angle of the
\* pivot at progress 1 is exactly a quarter turn times direction and no
\* update turns the pivot backwards.
C24_Easing ==
    /\ [](pivotRotation # << >> =>
             LET pivot == pivotRotation[1]
                 one == pivot.n * pivot.n * pivot.n
             IN  /\ pivot.eased \in 0..one
                 /\ pivot.progress = 0 => pivot.eased = 0
                 /\ pivot.progress = pivot.n =>
                        /\ pivot.eased = one
                        /\ pivot.angle = one * pivot.direction
                 /\ 2 * pivot.progress = pivot.n =>
                        /\ 2 * EaseFirstBranch(pivot.progress, pivot.n) = one
                        /\ 2 * EaseSecondBranch(pivot.progress, pivot.n) = one
                        /\ 2 * pivot.eased = one)
    /\ [][ (pivotRotation # << >> /\ pivotRotation' # << >>) =>
               LET before == pivotRotation[1]
                   after == pivotRotation'[1]
               IN  after.progress >= before.progress =>
                       /\ after.eased >= before.eased
                       /\ after.angle * after.direction >= before.angle * before.direction
          ]_vars

\* The pivot of a move of direction -1 at progress 0.5.
C24_Witness ==
    /\ pivotRotation # << >>
    /\ pivotRotation[1].n = 2 * EaseGrid
    /\ pivotRotation[1].progress = EaseGrid
    /\ pivotRotation[1].direction = -1
    /\ 2 * pivotRotation[1].angle = -(8 * EaseGrid * EaseGrid * EaseGrid)
====
